---- MODULE Spec2Model ----
(***************************************************************************)
(* Model of blogger_agent/config.py: the dataclass ResearchConfiguration   *)
(* (three fields with defaults, generated __init__, plain attribute        *)
(* access, not frozen) and the module-level shared instance `config`.      *)
(***************************************************************************)
EXTENDS Integers, FiniteSets, Sequences, TLC

\* ------------------------------------------------------------------ bounds
\* Most instances alive at once (the shared one included).
MaxInstances == 2
\* Threads that read the shared instance concurrently.
NumReaders == 3

\* Values callers supply (overrides and assignments), per field.
CriticModels == {"", "gemini-2.0-pro-exp-02-05"}
WorkerModels == {"gemini-2.0-flash-lite"}
IterationLimits == {-1, 0, 10}

\* ------------------------------------------------- the class (lines 8-20)
Fields == {"critic_model", "worker_model", "max_search_iterations"}
TextFields == {"critic_model", "worker_model"}

\* Field defaults, lines 18-20.
DefaultCriticModel == "gemini-2.5-pro"
DefaultWorkerModel == "gemini-2.5-flash"
DefaultMaxSearchIterations == 5

\* An optional keyword argument: {} when not supplied, {v} when supplied.
Opt(S) == {{}} \cup {{v} : v \in S}
Kwargs == [critic_model : Opt(CriticModels), worker_model : Opt(WorkerModels),
           max_search_iterations : Opt(IterationLimits)]
NoArgs == [critic_model |-> {}, worker_model |-> {}, max_search_iterations |-> {}]

\* A parameter of the generated __init__: the supplied value, else the default.
Param(arg, default) == IF arg = {} THEN default ELSE CHOOSE v \in arg : TRUE

\* A Python value as a caller holds it (str or int).
PyStr(s) == [t |-> "str", s |-> s, i |-> 0]
PyInt(i) == [t |-> "int", s |-> "", i |-> i]
PyNone == [t |-> "None", s |-> "", i |-> 0]

\* Mutants of the constructor.
InitFalsy(kw) ==
    [raised |-> FALSE,
     obj |-> [critic_model |-> IF kw.critic_model \in {{}, {""}} THEN DefaultCriticModel
                               ELSE Param(kw.critic_model, DefaultCriticModel),
              worker_model |-> IF kw.worker_model \in {{}, {""}} THEN DefaultWorkerModel
                               ELSE Param(kw.worker_model, DefaultWorkerModel),
              max_search_iterations |->
                  IF kw.max_search_iterations \in {{}, {0}} THEN DefaultMaxSearchIterations
                  ELSE Param(kw.max_search_iterations, DefaultMaxSearchIterations)]]
InitSwapped(kw) ==
    [raised |-> FALSE,
     obj |-> [critic_model |-> Param(kw.critic_model, DefaultWorkerModel),
              worker_model |-> Param(kw.worker_model, DefaultCriticModel),
              max_search_iterations |->
                  Param(kw.max_search_iterations, DefaultMaxSearchIterations)]]
InitCoupled(kw) ==
    [raised |-> FALSE,
     obj |-> [critic_model |-> Param(kw.critic_model, DefaultCriticModel),
              worker_model |-> IF kw.max_search_iterations = {} THEN
                                   Param(kw.worker_model, DefaultWorkerModel)
                               ELSE DefaultWorkerModel,
              max_search_iterations |->
                  Param(kw.max_search_iterations, DefaultMaxSearchIterations)]]
InitValidating(kw) ==
    LET m == Param(kw.max_search_iterations, DefaultMaxSearchIterations)
        c == Param(kw.critic_model, DefaultCriticModel)
    IN  [raised |-> (m < 1 \/ c = ""),
         obj |-> [critic_model |-> c,
                  worker_model |-> Param(kw.worker_model, DefaultWorkerModel),
                  max_search_iterations |-> m]]
InitClamping(kw) ==
    LET m == Param(kw.max_search_iterations, DefaultMaxSearchIterations)
    IN  [raised |-> FALSE,
         obj |-> [critic_model |-> Param(kw.critic_model, DefaultCriticModel),
                  worker_model |-> Param(kw.worker_model, DefaultWorkerModel),
                  max_search_iterations |-> IF m < 1 THEN 1 ELSE m]]

\* ResearchConfiguration(**kw): the dataclass-generated __init__ assigns each
\* parameter to its field as given; it validates nothing and raises nothing.
ResearchConfiguration(kw) ==
    [raised |-> FALSE,
     obj |-> [critic_model |-> Param(kw.critic_model, DefaultCriticModel),
              worker_model |-> Param(kw.worker_model, DefaultWorkerModel),
              max_search_iterations |->
                  Param(kw.max_search_iterations, DefaultMaxSearchIterations)]]

\* obj.f as the caller receives it.
GetAttr(obj, f) == IF f \in TextFields THEN PyStr(obj[f]) ELSE PyInt(obj[f])

\* The values a caller may assign to field f.
Assignable(f) ==
    CASE f = "critic_model" -> CriticModels
      [] f = "worker_model" -> WorkerModels
      [] f = "max_search_iterations" -> IterationLimits

\* ------------------------------------------------------------------- state
VARIABLES
    loaded,   \* blogger_agent.config is in sys.modules
    config,   \* the module global `config`: a reference, 0 while unbound
    heap,     \* reference -> ResearchConfiguration instance
    last,     \* the call that completed last, with its arguments and result
    obs       \* reader thread -> field -> what its read of config.field returned

vars == <<loaded, config, heap, last, obs>>

Readers == 1 .. NumReaders
Refs == DOMAIN heap
NewRef == Cardinality(DOMAIN heap) + 1

Call(op, ref, kw, f, ret, raised) ==
    [op |-> op, ref |-> ref, kwargs |-> kw, field |-> f, ret |-> ret, raised |-> raised]

NoObs == [f \in Fields |-> PyNone]

Init ==
    /\ loaded = FALSE
    /\ config = 0
    /\ heap = <<>>
    /\ last = Call("none", 0, NoArgs, "", PyNone, FALSE)
    /\ obs = [r \in Readers |-> NoObs]

\* --------------------------------------------------------------- operations
\* Mutant: the module body runs on every import (no sys.modules check).
LoadModuleAlways ==
    /\ Cardinality(DOMAIN heap) < MaxInstances
    /\ LET r == ResearchConfiguration(NoArgs) IN
        /\ ~r.raised
        /\ heap' = Append(heap, r.obj)
        /\ config' = NewRef
    /\ loaded' = TRUE
    /\ last' = Call("import", NewRef, NoArgs, "", PyNone, FALSE)
    /\ UNCHANGED obs

\* First import: the module body runs once, line 23 binds config to a new
\* instance built with no arguments.
LoadModule ==
    /\ ~loaded
    /\ LET r == ResearchConfiguration(NoArgs) IN
        /\ ~r.raised
        /\ heap' = Append(heap, r.obj)
        /\ config' = NewRef
    /\ loaded' = TRUE
    /\ last' = Call("import", NewRef, NoArgs, "", PyNone, FALSE)
    /\ UNCHANGED obs

\* A later import finds the module in sys.modules: the body is not run again.
ImportAgain ==
    /\ loaded
    /\ last' = Call("import", config, NoArgs, "", PyNone, FALSE)
    /\ UNCHANGED <<loaded, config, heap, obs>>

\* A caller constructs an instance with keyword arguments kw.
Construct(kw) ==
    /\ loaded
    /\ Cardinality(DOMAIN heap) < MaxInstances
    /\ LET r == ResearchConfiguration(kw) IN
        /\ heap' = IF r.raised THEN heap ELSE Append(heap, r.obj)
        /\ last' = Call("construct", IF r.raised THEN 0 ELSE NewRef, kw, "", PyNone,
                        r.raised)
    /\ UNCHANGED <<loaded, config, obs>>

\* Mutants of attribute assignment.
SetAttrShared(ref, f, v) ==
    /\ ref \in Refs
    /\ heap' = [r \in Refs |-> [heap[r] EXCEPT ![f] = v]]
    /\ last' = Call("setattr", ref, NoArgs, f, GetAttr(heap'[ref], f), FALSE)
    /\ UNCHANGED <<loaded, config, obs>>
SetAttrReset(ref, f, v) ==
    /\ ref \in Refs
    /\ heap' = [heap EXCEPT ![ref] = [ResearchConfiguration(NoArgs).obj EXCEPT ![f] = v]]
    /\ last' = Call("setattr", ref, NoArgs, f, GetAttr(heap'[ref], f), FALSE)
    /\ UNCHANGED <<loaded, config, obs>>

\* obj.f = v: the dataclass is not frozen, so plain attribute assignment is
\* available on every instance.
SetAttr(ref, f, v) ==
    /\ ref \in Refs
    /\ heap' = [heap EXCEPT ![ref][f] = v]
    /\ last' = Call("setattr", ref, NoArgs, f, GetAttr(heap'[ref], f), FALSE)
    /\ UNCHANGED <<loaded, config, obs>>

\* Mutant: a read that uses the iteration limit as a countdown.
ReadConsuming(ref, f) ==
    /\ ref \in Refs
    /\ last' = Call("read", ref, NoArgs, f, GetAttr(heap[ref], f), FALSE)
    /\ heap' = IF f = "max_search_iterations" /\ heap[ref][f] > -1
               THEN [heap EXCEPT ![ref][f] = @ - 1] ELSE heap
    /\ UNCHANGED <<loaded, config, obs>>

\* obj.f: a plain attribute read.
Read(ref, f) ==
    /\ ref \in Refs
    /\ last' = Call("read", ref, NoArgs, f, GetAttr(heap[ref], f), FALSE)
    /\ UNCHANGED <<loaded, config, heap, obs>>

\* Mutant: a reader thread that counts down the shared iteration limit.
ReaderReadConsuming(r, f) ==
    /\ loaded
    /\ obs' = [obs EXCEPT ![r][f] = GetAttr(heap[config], f)]
    /\ heap' = IF f = "max_search_iterations" /\ heap[config][f] > 3
               THEN [heap EXCEPT ![config][f] = @ - 1] ELSE heap
    /\ UNCHANGED <<loaded, config, last>>

\* Reader thread r reads config.f, without taking any lock.
ReaderRead(r, f) ==
    /\ loaded
    /\ obs' = [obs EXCEPT ![r][f] = GetAttr(heap[config], f)]
    /\ UNCHANGED <<loaded, config, heap, last>>

\* ----------------------------------------------------------- specifications
Next ==
    \/ LoadModule
    \/ ImportAgain
    \/ \E kw \in Kwargs : Construct(kw)
    \/ \E ref \in Refs, f \in Fields : \E v \in Assignable(f) : SetAttr(ref, f, v)
    \/ \E ref \in Refs, f \in Fields : Read(ref, f)

Spec == Init /\ [][Next]_vars

\* Callers that only read the shared instance, from several threads.
NextReaders ==
    \/ LoadModule
    \/ ImportAgain
    \/ \E r \in Readers, f \in Fields : ReaderRead(r, f)

SpecReaders == Init /\ [][NextReaders]_vars

\* ------------------------------------------------------------------- claims
\* The documented defaults, as the interface table states them.
SpecDefaults ==
    [critic_model |-> "gemini-2.5-pro", worker_model |-> "gemini-2.5-flash",
     max_search_iterations |-> 5]

\* The value keyword f of kw carries (kw supplies f).
Supplied(kw, f) == CHOOSE v \in kw[f] : TRUE
\* kw supplies field f and nothing else.
OnlyOverrides(kw, f) == kw[f] # {} /\ \A g \in Fields \ {f} : kw[g] = {}
\* The call that has just completed is a construction that returned an instance.
Constructed == last.op = "construct" /\ ~last.raised /\ last.ref \in Refs

\* C1: an instance constructed with no arguments has critic_model
\* "gemini-2.5-pro", worker_model "gemini-2.5-flash" and max_search_iterations 5.
C1_NoArgsDefaults ==
    (last.op = "construct" /\ last.kwargs = NoArgs) =>
        /\ Constructed
        /\ heap[last.ref].critic_model = "gemini-2.5-pro"
        /\ heap[last.ref].worker_model = "gemini-2.5-flash"
        /\ heap[last.ref].max_search_iterations = 5
C1_Witness == Constructed /\ last.kwargs = NoArgs /\ last.ref # config

\* C2: an instance constructed with an override for one field only has that
\* field equal to the supplied value and the other two at their defaults.
C2_SingleOverride ==
    last.op = "construct" =>
        \A f \in Fields :
            OnlyOverrides(last.kwargs, f) =>
                /\ Constructed
                /\ \A g \in Fields :
                      heap[last.ref][g] =
                          IF g = f THEN Supplied(last.kwargs, f) ELSE SpecDefaults[g]
C2_Witness ==
    /\ Constructed
    /\ OnlyOverrides(last.kwargs, "max_search_iterations")
    /\ last.kwargs.max_search_iterations = {10}
    /\ heap[last.ref] = [SpecDefaults EXCEPT !.max_search_iterations = 10]

\* C3: an instance constructed with overrides for all three fields holds
\* exactly the three supplied values.
C3_AllOverrides ==
    (last.op = "construct" /\ \A f \in Fields : last.kwargs[f] # {}) =>
        /\ Constructed
        /\ \A f \in Fields : heap[last.ref][f] = Supplied(last.kwargs, f)
C3_Witness ==
    /\ Constructed
    /\ last.kwargs = [critic_model |-> {""}, worker_model |-> {"gemini-2.0-flash-lite"},
                      max_search_iterations |-> {-1}]
    /\ heap[last.ref] = [critic_model |-> "", worker_model |-> "gemini-2.0-flash-lite",
                         max_search_iterations |-> -1]

\* C4 as stated: no operation changes a field of an existing instance.
C4_Original == [][\A ref \in Refs : heap'[ref] = heap[ref]]_vars
\* C4 as amended: a field of an existing instance changes only by an attribute
\* assignment to that field of that instance; imports, reads, constructions
\* and assignments to other fields or instances leave it as it was.
C4_OnlyAssignmentChanges ==
    [][\A ref \in Refs : \A f \in Fields :
          heap'[ref][f] # heap[ref][f] =>
              last'.op = "setattr" /\ last'.ref = ref /\ last'.field = f]_vars
C4_Witness ==
    /\ last.op = "setattr" /\ last.ref = config /\ last.field = "max_search_iterations"
    /\ heap[config] = [SpecDefaults EXCEPT !.max_search_iterations = 0]

\* C5 as stated: max_search_iterations of a constructed instance is at least 1.
C5_Original == Constructed => heap[last.ref].max_search_iterations >= 1
\* C5 as amended: without an override max_search_iterations is the positive
\* default 5; with an override it is the supplied integer as given, positive
\* or not.
C5_DefaultPositiveOverrideAsGiven ==
    last.op = "construct" =>
        /\ Constructed
        /\ last.kwargs.max_search_iterations = {} =>
              /\ heap[last.ref].max_search_iterations = 5
              /\ heap[last.ref].max_search_iterations >= 1
        /\ last.kwargs.max_search_iterations # {} =>
              heap[last.ref].max_search_iterations =
                  Supplied(last.kwargs, "max_search_iterations")
C5_Witness ==
    /\ Constructed
    /\ last.kwargs.max_search_iterations = {-1}
    /\ heap[last.ref].max_search_iterations < 1

\* C6: construction is total: for every combination of inputs, the empty
\* string and non-positive integers included, it raises nothing and returns
\* an instance in which all three fields are present and hold a value.
C6_ConstructionTotal ==
    /\ \A kw \in Kwargs : ~ResearchConfiguration(kw).raised
    /\ last.op = "construct" =>
          /\ Constructed
          /\ DOMAIN heap[last.ref] = Fields
          /\ heap[last.ref].critic_model \in STRING
          /\ heap[last.ref].worker_model \in STRING
          /\ heap[last.ref].max_search_iterations \in Int
C6_Witness ==
    /\ Constructed
    /\ last.kwargs.critic_model = {""}
    /\ last.kwargs.max_search_iterations \in {{0}, {-1}}
    /\ heap[last.ref].critic_model = ""

\* C7: a read changes no field of any instance, a read that follows returns
\* what this one returned, and two successive reads of the same field of the
\* same instance return the same value.
C7_ReadIdempotent ==
    [][last'.op = "read" =>
          /\ heap' = heap
          /\ last'.ret = GetAttr(heap'[last'.ref], last'.field)
          /\ (last.op = "read" /\ last.ref = last'.ref /\ last.field = last'.field)
                => last'.ret = last.ret]_vars
C7_Witness ==
    /\ last.op = "read" /\ last.field = "max_search_iterations"
    /\ last.ret = PyInt(10)
    /\ heap[last.ref].max_search_iterations = 10

\* C8: with any number of threads reading config and nobody assigning, under
\* every interleaving each reader sees for each field the value set at
\* construction, no two readers differ on a field, and no read ever waits.
C8_ReadersAgree ==
    /\ \A r \in Readers : \A f \in Fields :
          obs[r][f] # PyNone => obs[r][f] = GetAttr(SpecDefaults, f)
    /\ \A r1 \in Readers : \A r2 \in Readers : \A f \in Fields :
          (obs[r1][f] # PyNone /\ obs[r2][f] # PyNone) => obs[r1][f] = obs[r2][f]
    /\ loaded => \A r \in Readers : \A f \in Fields : ENABLED ReaderRead(r, f)
C8_Witness ==
    /\ \A r \in Readers : obs[r].max_search_iterations = PyInt(5)
    /\ obs[1].critic_model = PyStr("gemini-2.5-pro")
    /\ obs[2].worker_model = PyStr("gemini-2.5-flash")

\* C9 as stated: once the module is loaded, config exists and holds the three
\* defaults for the rest of the process.
C9_Original == loaded => (config \in Refs /\ heap[config] = SpecDefaults)
\* C9 as amended: loading creates exactly one instance, built with no
\* overrides, and binds config to it; config stays bound to that instance;
\* a later import creates nothing; and config keeps the defaults until a
\* field of config is assigned.
C9_SingleSharedInstance ==
    [][/\ (~loaded /\ loaded') =>
              /\ Refs = {} /\ Cardinality(Refs') = 1
              /\ config' \in Refs' /\ heap'[config'] = SpecDefaults
       /\ loaded =>
              /\ loaded' /\ config \in Refs /\ config' = config
              /\ last'.op = "import" => heap' = heap
              /\ ~(last'.op = "setattr" /\ last'.ref = config) =>
                    heap'[config] = heap[config]]_vars
C9_Witness ==
    /\ loaded /\ last.op = "import" /\ last.ref = config
    /\ Cardinality(Refs) = 2
    /\ heap[config] = SpecDefaults

\* C10: instances are independent of each other and of the defaults: an
\* assignment changes the assigned instance only, a construction changes no
\* existing instance, and an instance constructed with no arguments after
\* any constructions and assignments holds the defaults.
C10_InstancesIndependent ==
    [][/\ last'.op = "setattr" =>
              \A ref \in Refs \ {last'.ref} : heap'[ref] = heap[ref]
       /\ last'.op = "construct" =>
              /\ \A ref \in Refs : heap'[ref] = heap[ref]
              /\ last'.kwargs = NoArgs =>
                    (last'.ref \in Refs' \ Refs /\ heap'[last'.ref] = SpecDefaults)]_vars
C10_Witness ==
    /\ Constructed /\ last.kwargs = NoArgs
    /\ heap[config].critic_model = ""
    /\ heap[config].max_search_iterations = -1
    /\ heap[last.ref] = SpecDefaults

====
